---- MODULE Spec2Model ----
(***************************************************************************)
(* Model of voxane's sample buffer (src/sample.rs) and spectrum analyzer   *)
(* (src/analyzer.rs).                                                      *)
(*                                                                         *)
(* f32 values (Sample, Frequency, SignalStrength) are modelled as exact    *)
(* rationals in lowest terms, [n |-> numerator, d |-> denominator > 0];    *)
(* floating-point rounding is not modelled.  Buckets (crate::buckets) and  *)
(* Window (crate::window) are modelled from their documented contract.     *)
(***************************************************************************)
EXTENDS Integers, Sequences, FiniteSets, TLC

VARIABLES
    size,        \* SampleBuffer: the size given to SampleBuffer::new
    buffer,      \* SampleBuffer: the VecDeque contents, front first
    pushed,      \* history: the slices given to push so far, in call order
    args,        \* the arguments of the pending/last Analyzer::new call
    new_result,  \* the Result returned by Analyzer::new
    analyzer,    \* the Analyzer instance shared by all callers
    call,        \* the last completed call on the analyzer: operation and argument
    ret,         \* what that call returned
    fft_in,      \* what that call handed to fft.process (<<>> if not invoked)
    reads,       \* the spectrum indices that call read
    pc,          \* per thread: position inside its current call
    targ,        \* per thread: operation and argument of its current call
    scratch,     \* scratch buffers (fft_input_buffer), by owner
    tret         \* per thread: the value returned by its last call

vars == <<size, buffer, pushed, args, new_result, analyzer, call, ret,
          fft_in, reads, pc, targ, scratch, tret>>

bufferVars   == <<size, buffer, pushed>>
newVars      == <<args, new_result>>
callVars     == <<analyzer, call, ret, fft_in, reads>>
threadVars   == <<pc, targ, scratch, tret>>

----------------------------------------------------------------------------
(* Bounds *)

MaxSize     == 3    \* largest SampleBuffer size
MaxPushLen  == 3    \* longest slice given to one push
MaxPushes   == 2    \* number of push calls in a behaviour

SampleValues == {1, 2}

MaxBucketLen == 2   \* largest bucket count given to Analyzer::new
MaxCutoff    == 3   \* cutoffs given to Analyzer::new range over -1..MaxCutoff (Hz)
MaxRate      == 4   \* sampling rates given to Analyzer::new range over -1..MaxRate (Hz)

MaxSamples     == 5   \* longest sample slice given to calculate_spectrum
MaxSpectrumLen == 6   \* longest spectrum slice given to bucketize_spectrum

\* transform lengths given to Analyzer::new
FftLens == {1, 2, 4, 8}

\* transform lengths of the analyzers on which calculate_spectrum is called:
\* the lengths whose twiddle factors are 1, -i, -1, i, so that the discrete
\* Fourier transform is computed exactly
DftLens == {1, 2, 4}

SpectrumValues == {1, 3}

MaxThreadSamples  == 4   \* longest sample slice a concurrent caller passes
MaxThreadSpectrum == 2   \* longest spectrum slice a concurrent caller passes

\* the callers that share one Analyzer
Threads == {1, 2}

----------------------------------------------------------------------------
(* Generic sequence helpers *)

RECURSIVE Zeros(_)
Zeros(n) == IF n = 0 THEN <<>> ELSE Append(Zeros(n - 1), 0)

RECURSIVE Concat(_)
Concat(ss) == IF ss = <<>> THEN <<>> ELSE Head(ss) \o Concat(Tail(ss))

LastN(s, n) == IF Len(s) <= n THEN s ELSE SubSeq(s, Len(s) - n + 1, Len(s))

SeqsUpTo(S, n) == UNION {[1..k -> S] : k \in 0..n}

----------------------------------------------------------------------------
(* SampleBuffer, src/sample.rs *)

\* VecDeque::from(vec![0.0; size])
SampleBufferNew(sz) == Zeros(sz)

\* VecDeque::pop_front: removes the front element, does nothing when empty
PopFront(buf) == IF buf = <<>> THEN buf ELSE Tail(buf)

\* a push that inserts at the wrong end
PushSampleFront(buf, sample) ==
    <<sample>> \o (IF buf = <<>> THEN buf ELSE SubSeq(buf, 1, Len(buf) - 1))

\* loop body of push: pop_front(); push_back(*sample)
PushSample(buf, sample) == Append(PopFront(buf), sample)

RECURSIVE PushLoop(_, _)
PushLoop(buf, new) ==
    IF new = <<>> THEN buf
    ELSE PushLoop(PushSample(buf, Head(new)), Tail(new))

\* a push without the early return on an empty buffer
PushNoGuard(buf, new) == PushLoop(buf, new)

\* SampleBuffer::push
SampleBufferPush(buf, new) == IF Len(buf) = 0 THEN buf ELSE PushLoop(buf, new)

IdleNew     == [fft_buffer_len |-> 1, bucket_len |-> 1, window |-> "Rectangle",
                lower_cutoff |-> 0, upper_cutoff |-> 1, sampling_rate |-> 2]
NoResult    == [ok |-> FALSE, err |-> "NotCalled", value |-> <<>>]
NoCall      == [op |-> "none", arg |-> <<>>]

InitBuffer ==
    /\ size \in 0..MaxSize
    /\ buffer = SampleBufferNew(size)
    /\ pushed = <<>>
    /\ args = IdleNew
    /\ new_result = NoResult
    /\ analyzer = NoResult
    /\ call = NoCall
    /\ ret = NoResult
    /\ fft_in = <<>>
    /\ reads = {}
    /\ pc = <<>>
    /\ targ = <<>>
    /\ scratch = <<>>
    /\ tret = <<>>

Push(new) ==
    /\ Len(pushed) < MaxPushes
    /\ buffer' = SampleBufferPush(buffer, new)
    /\ pushed' = Append(pushed, new)
    /\ UNCHANGED <<size, newVars, callVars, threadVars>>

NextBuffer == \E new \in SeqsUpTo(SampleValues, MaxPushLen) : Push(new)

SpecBuffer == InitBuffer /\ [][NextBuffer]_vars

\* C1: after any sequence of pushes (empty, short or longer than size) the
\* buffer holds exactly `size` samples; a buffer of size 0 stays empty.
BufferHoldsSize == Len(buffer) = size /\ (size = 0 => buffer = <<>>)

\* pushes of an empty slice and of a slice longer than the buffer have happened
BufferHoldsSizeWitness ==
    /\ Len(pushed) = 2
    /\ pushed[1] = <<>>
    /\ Len(pushed[2]) > size
    /\ Len(buffer) = size

\* C2: for size >= 1 the buffer is the last `size` elements of size zeros
\* followed by every pushed sample in push order.
SlidingWindow ==
    size >= 1 => buffer = LastN(Zeros(size) \o Concat(pushed), size)

\* new(3), push([1,2]) gave [0,1,2]; a further push([2,1]) gave [2,2,1]
SlidingWindowWitness ==
    /\ size = 3
    /\ pushed = << <<1, 2>>, <<2, 1>> >>
    /\ buffer = <<2, 2, 1>>

----------------------------------------------------------------------------
(* f32 arithmetic on exact rationals *)

Abs(x) == IF x < 0 THEN -x ELSE x

RECURSIVE GCD(_, _)
GCD(a, b) == IF b = 0 THEN a ELSE GCD(b, a % b)

\* the rational n/d (d # 0) in lowest terms with a positive denominator
Rat(n, d) ==
    LET g == GCD(Abs(n), Abs(d))
        sg == IF d < 0 THEN -1 ELSE 1
    IN  [n |-> sg * (n \div g), d |-> sg * (d \div g)]

FromInt(i) == [n |-> i, d |-> 1]
Zero == FromInt(0)

RAdd(a, b) == Rat(a.n * b.d + b.n * a.d, a.d * b.d)
RSub(a, b) == Rat(a.n * b.d - b.n * a.d, a.d * b.d)
RMul(a, b) == Rat(a.n * b.n, a.d * b.d)
RDiv(a, b) == Rat(a.n * b.d, a.d * b.n)
RLt(a, b)  == a.n * b.d < b.n * a.d
RLe(a, b)  == a.n * b.d <= b.n * a.d
\* f32::min
RMin(a, b) == IF RLt(b, a) THEN b ELSE a

\* Result<T, Error>
Ok(v)  == [ok |-> TRUE, err |-> "None", value |-> v]
Err(e) == [ok |-> FALSE, err |-> e, value |-> <<>>]

\* Option<usize>
Some(i) == [some |-> TRUE, v |-> i]
None    == [some |-> FALSE, v |-> 0]

----------------------------------------------------------------------------
(* Window: a closed enumeration; Rectangle is the no-op variant, Triangle    *)
(* stands for the tapered variants (coefficient 1 - |(2n - N + 1)/(N + 1)|). *)

Windows == {"Rectangle", "Triangle"}

WindowGenerate(window, length) ==
    [j \in 1..length |->
        IF window = "Rectangle" THEN FromInt(1)
        ELSE RSub(FromInt(1), Rat(Abs(2 * (j - 1) - length + 1), length + 1))]

----------------------------------------------------------------------------
(* Buckets: `count` equal-width contiguous bands over [lower, upper) *)

BucketsNew(lower_cutoff, upper_cutoff, count) ==
    IF \/ count = 0
       \/ ~RLt(lower_cutoff, upper_cutoff)
       \/ RLt(lower_cutoff, Zero)
       \/ RLt(upper_cutoff, Zero)
    THEN Err("InvalidRange")
    ELSE LET width == RDiv(RSub(upper_cutoff, lower_cutoff), FromInt(count))
         IN  Ok([bands |-> [i \in 1..count |->
                    << RAdd(lower_cutoff, RMul(FromInt(i - 1), width)),
                       RAdd(lower_cutoff, RMul(FromInt(i), width)) >>]])

BucketsLen(buckets) == Len(buckets.bands)

LowerCutoff(buckets) == buckets.bands[1][1]

UpperCutoff(buckets) == buckets.bands[Len(buckets.bands)][2]

\* start inclusive, end exclusive; band indices are 0-based as in the code
BucketsLocate(buckets, freq) ==
    LET hits == {i \in 1..Len(buckets.bands) :
                    /\ RLe(buckets.bands[i][1], freq)
                    /\ RLt(freq, buckets.bands[i][2])}
    IN  IF hits = {} THEN None ELSE Some((CHOOSE i \in hits : TRUE) - 1)

----------------------------------------------------------------------------
(* Analyzer::new, src/analyzer.rs *)

\* a constructor that builds the buckets before it checks the sampling rate
AnalyzerNewBucketsFirst(fft_buffer_len, bucket_len, window, lower_cutoff, upper_cutoff, sampling_rate) ==
    LET upper   == RMin(upper_cutoff, RDiv(sampling_rate, FromInt(2)))
        buckets == BucketsNew(lower_cutoff, upper, bucket_len)
    IN  IF ~buckets.ok THEN Err(buckets.err)
        ELSE IF ~RLt(Zero, sampling_rate) THEN Err("InvalidSamplingRate")
        ELSE Ok([fft          |-> [len |-> fft_buffer_len],
                 fft_bin_size |-> RDiv(sampling_rate, FromInt(fft_buffer_len)),
                 window       |-> window,
                 buckets      |-> buckets.value])

\* a constructor that does not clamp the upper cutoff
AnalyzerNewNoClamp(fft_buffer_len, bucket_len, window, lower_cutoff, upper_cutoff, sampling_rate) ==
    IF ~RLt(Zero, sampling_rate) THEN Err("InvalidSamplingRate")
    ELSE LET buckets == BucketsNew(lower_cutoff, upper_cutoff, bucket_len)
         IN  IF ~buckets.ok THEN Err(buckets.err)
             ELSE Ok([fft          |-> [len |-> fft_buffer_len],
                      fft_bin_size |-> RDiv(sampling_rate, FromInt(fft_buffer_len)),
                      window       |-> window,
                      buckets      |-> buckets.value])

\* the fft field is the plan; a plan is determined by its length
AnalyzerNew(fft_buffer_len, bucket_len, window, lower_cutoff, upper_cutoff, sampling_rate) ==
    IF ~RLt(Zero, sampling_rate) THEN Err("InvalidSamplingRate")
    ELSE LET upper   == RMin(upper_cutoff, RDiv(sampling_rate, FromInt(2)))
             buckets == BucketsNew(lower_cutoff, upper, bucket_len)
         IN  IF ~buckets.ok THEN Err(buckets.err)
             ELSE Ok([fft          |-> [len |-> fft_buffer_len],
                      fft_bin_size |-> RDiv(sampling_rate, FromInt(fft_buffer_len)),
                      window       |-> window,
                      buckets      |-> buckets.value])

NewArgs ==
    [fft_buffer_len : FftLens,
     bucket_len     : 0..MaxBucketLen,
     window         : Windows,
     lower_cutoff   : -1..MaxCutoff,
     upper_cutoff   : -1..MaxCutoff,
     sampling_rate  : -1..MaxRate]

InitNew ==
    /\ size = 0
    /\ buffer = <<>>
    /\ pushed = <<>>
    /\ args = IdleNew
    /\ new_result = NoResult
    /\ analyzer = NoResult
    /\ call = NoCall
    /\ ret = NoResult
    /\ fft_in = <<>>
    /\ reads = {}
    /\ pc = <<>>
    /\ targ = <<>>
    /\ scratch = <<>>
    /\ tret = <<>>

\* a call of Analyzer::new; the cutoffs and the rate are whole numbers of Hz
New(a) ==
    /\ new_result.err = "NotCalled"
    /\ args' = a
    /\ new_result' = AnalyzerNew(a.fft_buffer_len, a.bucket_len, a.window,
                                 FromInt(a.lower_cutoff), FromInt(a.upper_cutoff),
                                 FromInt(a.sampling_rate))
    /\ UNCHANGED <<bufferVars, callVars, threadVars>>

NextNew == \E a \in NewArgs : New(a)

SpecNew == InitNew /\ [][NextNew]_vars

Called == new_result.err # "NotCalled"

\* what Buckets::new alone would say about the arguments as given
BucketsAloneFails ==
    ~BucketsNew(FromInt(args.lower_cutoff), FromInt(args.upper_cutoff), args.bucket_len).ok

\* C5: Analyzer::new returns InvalidSamplingRate whenever sampling_rate <= 0,
\* whatever the other arguments are, and no Analyzer is produced.
InvalidRateFirst ==
    (Called /\ args.sampling_rate <= 0) =>
        /\ ~new_result.ok
        /\ new_result.err = "InvalidSamplingRate"
        /\ new_result.value = <<>>

\* a non-positive rate together with arguments Buckets::new would reject
InvalidRateFirstWitness ==
    /\ Called
    /\ args.sampling_rate <= 0
    /\ args.bucket_len = 0
    /\ args.lower_cutoff >= args.upper_cutoff
    /\ BucketsAloneFails
    /\ new_result.err = "InvalidSamplingRate"

\* the documented construction contract of Analyzer::new
ContractInputs ==
    /\ args.sampling_rate > 0
    /\ args.bucket_len >= 1
    /\ args.lower_cutoff >= 0
    /\ args.upper_cutoff > args.lower_cutoff

Nyquist == Rat(args.sampling_rate, 2)

CutoffInvariant ==
    /\ new_result.ok
    /\ RLt(LowerCutoff(new_result.value.buckets), UpperCutoff(new_result.value.buckets))
    /\ RLe(UpperCutoff(new_result.value.buckets), Nyquist)
    /\ UpperCutoff(new_result.value.buckets) = RMin(FromInt(args.upper_cutoff), Nyquist)
    /\ LowerCutoff(new_result.value.buckets) = FromInt(args.lower_cutoff)

\* C6 as stated: with contract inputs construction succeeds and the analyzer
\* satisfies lower_cutoff < upper_cutoff <= sampling_rate / 2.
ContractInputsSucceed == (Called /\ ContractInputs) => CutoffInvariant

\* C6 amended: the same, for contract inputs whose lower cutoff is below
\* sampling_rate / 2.
ContractInputsBelowNyquistSucceed ==
    (Called /\ ContractInputs /\ RLt(FromInt(args.lower_cutoff), Nyquist)) => CutoffInvariant

\* an upper cutoff above sampling_rate / 2 was clamped and construction succeeded
ClampWitness ==
    /\ Called
    /\ ContractInputs
    /\ RLt(FromInt(args.lower_cutoff), Nyquist)
    /\ RLt(Nyquist, FromInt(args.upper_cutoff))
    /\ new_result.ok
    /\ UpperCutoff(new_result.value.buckets) = Nyquist

----------------------------------------------------------------------------
(* Analyzer::calculate_spectrum, src/analyzer.rs *)

\* Complex::from(x): imaginary part zero
ComplexFrom(x) == [re |-> x, im |-> Zero]

CAdd(a, b) == [re |-> RAdd(a.re, b.re), im |-> RAdd(a.im, b.im)]

\* c * (-i)^e
CTimesTwiddle(c, e) ==
    CASE e % 4 = 0 -> c
      [] e % 4 = 1 -> [re |-> c.im, im |-> RSub(Zero, c.re)]
      [] e % 4 = 2 -> [re |-> RSub(Zero, c.re), im |-> RSub(Zero, c.im)]
      [] e % 4 = 3 -> [re |-> RSub(Zero, c.im), im |-> c.re]

RECURSIVE DftSum(_, _, _)
\* sum over j = 0 .. upto-1 of input[j] * exp(-2 pi i j k / N), N = Len(input)
DftSum(input, k, upto) ==
    IF upto = 0 THEN ComplexFrom(Zero)
    ELSE CAdd(DftSum(input, k, upto - 1),
              CTimesTwiddle(input[upto], (upto - 1) * k * (4 \div Len(input))))

\* FFT::process of a forward plan: the discrete Fourier transform of the input
FftProcess(input) == [k \in 1..Len(input) |-> DftSum(input, k - 1, Len(input))]

\* Complex::norm_sqr
NormSqr(c) == RAdd(RMul(c.re, c.re), RMul(c.im, c.im))

FftBufferLen(a) == a.fft.len

\* a length check that also rejects exactly fft_buffer_len samples
EnoughSamplesStrict(a, samples) == Len(samples) > FftBufferLen(a)

\* samples.len() >= self.fft_buffer_len()
EnoughSamples(a, samples) == Len(samples) >= FftBufferLen(a)

\* an iterator that does not skip the older samples
SampleIterNoSkip(a, samples) == samples

\* samples.into_iter().skip(samples.len() - self.fft_buffer_len())
SampleIter(a, samples) ==
    SubSeq(samples, Len(samples) - FftBufferLen(a) + 1, Len(samples))

Min(x, y) == IF x < y THEN x ELSE y

\* the zip of the sample iterator with the window iterator, pushed into
\* fft_input_buffer
FftInputBuffer(a, samples) ==
    LET sample_iter == SampleIter(a, samples)
        window_iter == WindowGenerate(a.window, FftBufferLen(a))
    IN  [j \in 1..Min(Len(sample_iter), Len(window_iter)) |->
            ComplexFrom(RMul(sample_iter[j], window_iter[j]))]

\* fft.process followed by norm_sqr of every output value
PowerSpectrum(fft_input_buffer) ==
    LET fft_output_buffer == FftProcess(fft_input_buffer)
    IN  [k \in 1..Len(fft_output_buffer) |-> NormSqr(fft_output_buffer[k])]

\* the whole function: the Result and what was handed to fft.process
CalculateSpectrum(a, samples) ==
    IF ~EnoughSamples(a, samples)
    THEN [res |-> Err("NotEnoughSamples"), fft_input |-> <<>>]
    ELSE LET fft_input_buffer == FftInputBuffer(a, samples)
         IN  IF FftBufferLen(a) # Len(fft_input_buffer)
             THEN [res |-> Err("Panic"), fft_input |-> <<>>]
             ELSE [res |-> Ok(PowerSpectrum(fft_input_buffer)),
                   fft_input |-> fft_input_buffer]

F32s(S) == {FromInt(v) : v \in S}

SpectrumAnalyzers ==
    {AnalyzerNew(n, 1, w, FromInt(0), FromInt(1), FromInt(2)).value :
        n \in DftLens, w \in Windows}

InitSpectrum ==
    /\ size = 0
    /\ buffer = <<>>
    /\ pushed = <<>>
    /\ args = IdleNew
    /\ new_result = NoResult
    /\ analyzer \in SpectrumAnalyzers
    /\ call = NoCall
    /\ ret = NoResult
    /\ fft_in = <<>>
    /\ reads = {}
    /\ pc = <<>>
    /\ targ = <<>>
    /\ scratch = <<>>
    /\ tret = <<>>

CalculateSpectrumCall(samples) ==
    /\ call' = [op |-> "calculate_spectrum", arg |-> samples]
    /\ \E r \in {CalculateSpectrum(analyzer, samples)} :
          /\ ret' = r.res
          /\ fft_in' = r.fft_input
    /\ reads' = {}
    /\ UNCHANGED <<analyzer, bufferVars, newVars, threadVars>>

NextSpectrum ==
    \E samples \in SeqsUpTo(F32s(SampleValues), MaxSamples) : CalculateSpectrumCall(samples)

SpecSpectrum == InitSpectrum /\ [][NextSpectrum]_vars

CalcDone == call.op = "calculate_spectrum"

\* C3: calculate_spectrum returns NotEnoughSamples exactly when
\* samples.len() < transform_length, and a failing call has neither invoked
\* the transform nor produced a result.
NotEnoughSamplesExactly ==
    CalcDone =>
        /\ (ret.err = "NotEnoughSamples") <=> (Len(call.arg) < FftBufferLen(analyzer))
        /\ ~ret.ok => (fft_in = <<>> /\ ret.value = <<>>)

\* a call with one sample too few has failed
NotEnoughSamplesWitness ==
    /\ CalcDone
    /\ Len(call.arg) = FftBufferLen(analyzer) - 1
    /\ Len(call.arg) >= 1
    /\ ret.err = "NotEnoughSamples"

\* C4: with samples.len() >= transform_length the call succeeds, the transform
\* is fed the last transform_length samples, sample j times window
\* coefficient j, the result has transform_length values, and it is the
\* result of the call on those last samples alone.
LastSamplesWindowed ==
    (CalcDone /\ Len(call.arg) >= FftBufferLen(analyzer)) =>
        LET n == FftBufferLen(analyzer)
            skip == Len(call.arg) - n
        IN  /\ ret.ok
            /\ Len(fft_in) = n
            /\ \A j \in 1..n :
                 fft_in[j] = [re |-> RMul(call.arg[skip + j],
                                          WindowGenerate(analyzer.window, n)[j]),
                              im |-> Zero]
            /\ Len(ret.value) = n
            /\ ret.value = CalculateSpectrum(analyzer, LastN(call.arg, n)).res.value

\* a successful call with an older sample in front that differs from the ones
\* used, under a tapered window
LastSamplesWindowedWitness ==
    /\ CalcDone
    /\ analyzer.window = "Triangle"
    /\ FftBufferLen(analyzer) = 4
    /\ Len(call.arg) = 5
    /\ call.arg[1] # call.arg[2]
    /\ call.arg[2] # call.arg[5]
    /\ ret.ok

----------------------------------------------------------------------------
(* Analyzer::bucketize_spectrum, src/analyzer.rs *)

\* a range that runs over the whole slice
ValidFftIndicesWhole(spectrum) == 1..Len(spectrum)

\* a range that starts at the zero-frequency bin
ValidFftIndicesFromZero(spectrum) == 0..(Len(spectrum) \div 2)

\* 1..=(spectrum.len() / 2); indices are 0-based as in the code
ValidFftIndices(spectrum) == 1..(Len(spectrum) \div 2)

\* vec![(0.0f32, 0); self.buckets.len()]
NewAssignments(a) == [b \in 1..BucketsLen(a.buckets) |-> <<Zero, 0>>]

\* one iteration of the loop, for index i; st holds the assignments, the
\* indices read so far and whether an index was out of bounds
BucketizeStep(a, spectrum, i, st) ==
    LET freq_bin == RMul(a.fft_bin_size, FromInt(i))
        located  == BucketsLocate(a.buckets, freq_bin)
    IN  IF located.some /\ located.v < Len(st.assignments)
        THEN IF i >= Len(spectrum)
             THEN [st EXCEPT !.reads = @ \cup {i}, !.panicked = TRUE]
             ELSE [st EXCEPT !.reads = @ \cup {i},
                             !.assignments[located.v + 1] =
                                 <<RAdd(@[1], spectrum[i + 1]), @[2] + 1>>]
        ELSE st

RECURSIVE BucketizeLoop(_, _, _, _, _)
\* the loop over the indices i..last in ascending order; a panic ends it
BucketizeLoop(a, spectrum, i, last, st) ==
    IF i > last \/ st.panicked THEN st
    ELSE BucketizeLoop(a, spectrum, i + 1, last, BucketizeStep(a, spectrum, i, st))

\* a band value that is not divided by the count
BandSum(value, count) == IF count > 0 THEN value ELSE Zero

\* if count > 0 { value / count as f32 } else { 0.0 }
BandMean(value, count) == IF count > 0 THEN RDiv(value, FromInt(count)) ELSE Zero

\* the whole function: the returned Vec, the indices read, and whether the
\* call panicked (index out of bounds or failed assert_eq)
BucketizeSpectrum(a, spectrum) ==
    LET indices == ValidFftIndices(spectrum)
        first   == IF indices = {} THEN 1 ELSE CHOOSE i \in indices : \A k \in indices : i <= k
        last    == IF indices = {} THEN 0 ELSE CHOOSE i \in indices : \A k \in indices : i >= k
        st      == BucketizeLoop(a, spectrum, first, last,
                      [assignments |-> NewAssignments(a), reads |-> {}, panicked |-> FALSE])
        bucketized == [b \in 1..Len(st.assignments) |->
                          BandMean(st.assignments[b][1], st.assignments[b][2])]
    IN  IF st.panicked \/ BucketsLen(a.buckets) # Len(bucketized)
        THEN [res |-> Err("Panic"), reads |-> st.reads]
        ELSE [res |-> Ok(bucketized), reads |-> st.reads]

\* analyzers with 8 Hz sampling rate and transform length 8 (1 Hz per bin)
BucketizeAnalyzers ==
    LET made == {AnalyzerNew(8, b, "Rectangle", FromInt(lo), FromInt(up), FromInt(8)) :
                    b \in 1..MaxBucketLen, lo \in 0..2, up \in 2..5}
    IN  {r.value : r \in {m \in made : m.ok}}

InitBucketize ==
    /\ size = 0
    /\ buffer = <<>>
    /\ pushed = <<>>
    /\ args = IdleNew
    /\ new_result = NoResult
    /\ analyzer \in BucketizeAnalyzers
    /\ call = NoCall
    /\ ret = NoResult
    /\ fft_in = <<>>
    /\ reads = {}
    /\ pc = <<>>
    /\ targ = <<>>
    /\ scratch = <<>>
    /\ tret = <<>>

BucketizeSpectrumCall(spectrum) ==
    /\ call' = [op |-> "bucketize_spectrum", arg |-> spectrum]
    /\ \E r \in {BucketizeSpectrum(analyzer, spectrum)} :
          /\ ret' = r.res
          /\ reads' = r.reads
    /\ fft_in' = <<>>
    /\ UNCHANGED <<analyzer, bufferVars, newVars, threadVars>>

NextBucketize ==
    \E spectrum \in SeqsUpTo(F32s(SpectrumValues), MaxSpectrumLen) :
        BucketizeSpectrumCall(spectrum)

SpecBucketize == InitBucketize /\ [][NextBucketize]_vars

BucketizeDone == call.op = "bucketize_spectrum"

\* C7: bucketize_spectrum never fails: for a slice of any length every index
\* it reads is inside the slice, the length assertion holds, and it returns
\* exactly bucket_count values.
BucketizeNeverFails ==
    BucketizeDone =>
        /\ ret.ok
        /\ reads \subseteq 0..(Len(call.arg) - 1)
        /\ Len(ret.value) = BucketsLen(analyzer.buckets)

\* a call on a slice of odd length, different from the transform length, has
\* read its last valid index
BucketizeNeverFailsWitness ==
    /\ BucketizeDone
    /\ Len(call.arg) = 3
    /\ FftBufferLen(analyzer) # 3
    /\ reads = {1}
    /\ ret.ok

\* the spectrum with the zero-frequency value and the mirrored half zeroed
Masked(spectrum) ==
    [k \in 1..Len(spectrum) |->
        IF k - 1 >= 1 /\ k - 1 <= Len(spectrum) \div 2 THEN spectrum[k] ELSE Zero]

\* C9: bucketize_spectrum reads only indices 1..=len/2, and its result is the
\* result for the spectrum whose other entries are replaced (here by zero):
\* the entry at index 0 and those above len/2 do not influence it.
OnlyLowerHalfRead ==
    BucketizeDone =>
        /\ reads \subseteq 1..(Len(call.arg) \div 2)
        /\ ret.value = BucketizeSpectrum(analyzer, Masked(call.arg)).res.value

\* a call whose argument is nonzero outside 1..=len/2, on an analyzer whose
\* first band starts at 0 Hz, and that read several indices
OnlyLowerHalfReadWitness ==
    /\ BucketizeDone
    /\ LowerCutoff(analyzer.buckets) = Zero
    /\ Len(call.arg) >= 6
    /\ Masked(call.arg) # call.arg
    /\ Cardinality(reads) >= 2

\* the considered indices that Buckets.locate assigns to band b (0-based)
IndicesOfBand(b) ==
    {i \in 1..(Len(call.arg) \div 2) :
        BucketsLocate(analyzer.buckets, RMul(analyzer.fft_bin_size, FromInt(i))) = Some(b)}

RECURSIVE SumAt(_, _)
SumAt(spectrum, indices) ==
    IF indices = {} THEN Zero
    ELSE LET i == CHOOSE k \in indices : TRUE
         IN  RAdd(spectrum[i + 1], SumAt(spectrum, indices \ {i}))

\* C10: every band's output is the arithmetic mean of the spectrum values at
\* the considered indices that Buckets.locate assigns to it, and 0.0 when
\* there is none; the indices read are exactly the located ones.
BandIsMeanOfLocated ==
    BucketizeDone =>
        /\ \A b \in 0..(BucketsLen(analyzer.buckets) - 1) :
              ret.value[b + 1] =
                  IF IndicesOfBand(b) = {} THEN Zero
                  ELSE RDiv(SumAt(call.arg, IndicesOfBand(b)),
                            FromInt(Cardinality(IndicesOfBand(b))))
        /\ reads = UNION {IndicesOfBand(b) : b \in 0..(BucketsLen(analyzer.buckets) - 1)}

\* two bands, one with two indices of different value (1 and 3, mean 2) and
\* one with no index
BandIsMeanOfLocatedWitness ==
    /\ BucketizeDone
    /\ BucketsLen(analyzer.buckets) = 2
    /\ Cardinality(IndicesOfBand(0)) = 2
    /\ IndicesOfBand(1) = {}
    /\ \E i \in IndicesOfBand(0), k \in IndicesOfBand(0) : call.arg[i + 1] # call.arg[k + 1]
    /\ ret.value[1] = FromInt(2)
    /\ ret.value[2] = Zero

----------------------------------------------------------------------------
(* Concurrent callers of one Analyzer (&self methods), step by step *)

\* scratch buffers kept in one place shared by every call
ScratchShared(t) == 1

\* fft_input_buffer and fft_output_buffer are locals of the call: each call
\* (thread) owns its scratch
ScratchOwner(t) == t

\* transform length 4, 8 Hz: 2 Hz per bin, bands [0, 2) and [2, 4)
SharedAnalyzers ==
    {AnalyzerNew(4, 2, w, FromInt(0), FromInt(4), FromInt(8)).value : w \in Windows}

InitThreads ==
    /\ size = 0
    /\ buffer = <<>>
    /\ pushed = <<>>
    /\ args = IdleNew
    /\ new_result = NoResult
    /\ analyzer \in SharedAnalyzers
    /\ call = NoCall
    /\ ret = NoResult
    /\ fft_in = <<>>
    /\ reads = {}
    /\ pc = [t \in Threads |-> "idle"]
    /\ targ = [t \in Threads |-> NoCall]
    /\ scratch = [t \in Threads |-> <<>>]
    /\ tret = [t \in Threads |-> NoResult]

\* entry of calculate_spectrum and its length check
BeginCalculate(t, samples) ==
    /\ pc[t] = "idle"
    /\ targ' = [targ EXCEPT ![t] = [op |-> "calculate_spectrum", arg |-> samples]]
    /\ IF EnoughSamples(analyzer, samples)
       THEN /\ pc' = [pc EXCEPT ![t] = "fill"]
            /\ tret' = [tret EXCEPT ![t] = NoResult]
       ELSE /\ pc' = pc
            /\ tret' = [tret EXCEPT ![t] = Err("NotEnoughSamples")]
    /\ UNCHANGED <<scratch, bufferVars, newVars, callVars>>

\* the windowing loop fills fft_input_buffer; then the length assertion
FillInput(t) ==
    /\ pc[t] = "fill"
    /\ LET fft_input_buffer == FftInputBuffer(analyzer, targ[t].arg)
       IN  IF FftBufferLen(analyzer) # Len(fft_input_buffer)
           THEN /\ pc' = [pc EXCEPT ![t] = "idle"]
                /\ tret' = [tret EXCEPT ![t] = Err("Panic")]
                /\ scratch' = scratch
           ELSE /\ pc' = [pc EXCEPT ![t] = "transform"]
                /\ tret' = tret
                /\ scratch' = [scratch EXCEPT ![ScratchOwner(t)] = fft_input_buffer]
    /\ UNCHANGED <<targ, bufferVars, newVars, callVars>>

\* fft.process, norm_sqr, return; the scratch buffers are dropped
Transform(t) ==
    /\ pc[t] = "transform"
    /\ tret' = [tret EXCEPT ![t] = Ok(PowerSpectrum(scratch[ScratchOwner(t)]))]
    /\ scratch' = [scratch EXCEPT ![ScratchOwner(t)] = <<>>]
    /\ pc' = [pc EXCEPT ![t] = "idle"]
    /\ UNCHANGED <<targ, bufferVars, newVars, callVars>>

\* entry of bucketize_spectrum
BeginBucketize(t, spectrum) ==
    /\ pc[t] = "idle"
    /\ targ' = [targ EXCEPT ![t] = [op |-> "bucketize_spectrum", arg |-> spectrum]]
    /\ pc' = [pc EXCEPT ![t] = "bucketize"]
    /\ tret' = [tret EXCEPT ![t] = NoResult]
    /\ UNCHANGED <<scratch, bufferVars, newVars, callVars>>

\* the body of bucketize_spectrum, which touches only its own locals, and return
FinishBucketize(t) ==
    /\ pc[t] = "bucketize"
    /\ tret' = [tret EXCEPT ![t] = BucketizeSpectrum(analyzer, targ[t].arg).res]
    /\ pc' = [pc EXCEPT ![t] = "idle"]
    /\ UNCHANGED <<targ, scratch, bufferVars, newVars, callVars>>

NextThreads ==
    \E t \in Threads :
        \/ \E samples \in SeqsUpTo(F32s(SampleValues), MaxThreadSamples) :
              BeginCalculate(t, samples)
        \/ FillInput(t)
        \/ Transform(t)
        \/ \E spectrum \in SeqsUpTo(F32s(SpectrumValues), MaxThreadSpectrum) :
              BeginBucketize(t, spectrum)
        \/ FinishBucketize(t)

SpecThreads == InitThreads /\ [][NextThreads]_vars

Returned(t) == pc[t] = "idle" /\ targ[t].op # "none"

\* every returned call's result is the function of its own argument and the
\* analyzer's configuration
ResultsDependOnArgumentOnly ==
    \A t \in Threads :
        Returned(t) =>
            tret[t] = IF targ[t].op = "calculate_spectrum"
                      THEN CalculateSpectrum(analyzer, targ[t].arg).res
                      ELSE BucketizeSpectrum(analyzer, targ[t].arg).res

\* C8: calls in any order or interleaved from several threads leave the
\* analyzer's configuration unchanged, and each call returns what its own
\* argument and that configuration determine, whatever ran before or
\* concurrently.
AnalyzerStateless ==
    /\ []ResultsDependOnArgumentOnly
    /\ [][analyzer' = analyzer]_vars

\* thread 1 has returned a spectrum while thread 2, called with other samples,
\* is between its windowing loop and its transform
AnalyzerStatelessWitness ==
    /\ Returned(1)
    /\ targ[1].op = "calculate_spectrum"
    /\ tret[1].ok
    /\ pc[2] = "transform"
    /\ targ[2].arg # targ[1].arg
    /\ scratch[2] # <<>>
====
